---- MODULE Spec2Model ----
(***************************************************************************)
(* Model of colossalai/zero/init_ctx/init_context.py: the constructor      *)
(* interceptor InsertPostInitMethodToModuleSubClasses, ZeroContextConfig,  *)
(* ZeroInitContext and ZeroContextMgr, one Python process per rank of the  *)
(* data-parallel group.                                                    *)
(*                                                                         *)
(* Every variable is a function of the rank: rank r's entry is the state   *)
(* of the Python process that runs rank r.  The user's program on a rank   *)
(* is single-threaded; the only suspension point is dist.broadcast in      *)
(* _post_context_exec, which is the one action shared by several ranks.    *)
(***************************************************************************)
EXTENDS Integers, Sequences, FiniteSets, TLC

\* ---------------------------------------------------------------- bounds
MaxCtx == 2        \* ZeroInitContext objects built per process
MaxParams == 2     \* nn.Parameter objects created per process
MaxDepth == 1      \* nesting depth of user-written hijack scopes
MaxCfg == 3        \* ZeroContextConfig objects built per process
MaxDraws == 1      \* random draws the user makes outside constructors
MaxRank == 3       \* dimensions of a tensor handed to calc_fanin_fanout
MaxDim == 2        \* size of each dimension of such a tensor

Ranks == {0, 1}                 \* process ranks
Seeds == {-1, 2}                \* base seeds passed to ZeroInitContext
DefaultSeed == 1023             \* seed: int = 2**10 - 1
Devices == {"cpu", "cuda"}      \* torch.device types
None == "None"                  \* Python's None / a missing attribute

\* ------------------------------------------------- the class hierarchy
\* The torch.nn.Module subclasses of the process.  Module itself is the
\* root and is never wrapped (the traversal starts at its subclasses).
\* NewSub and NewTop are declared by the user while a scope is active.
Module == "Module"
Classes == {"Linear", "Mixin", "Fused", "Block", "Experts", "NewSub", "NewTop"}
InitialClasses == <<"Linear", "Mixin", "Fused", "Block", "Experts">>
LateClasses == {"NewSub", "NewTop"}

\* direct bases, in the order of the class statement
Bases(c) ==
  CASE c = "Linear"  -> <<Module>>
    [] c = "Mixin"   -> <<Module>>
    [] c = "Fused"   -> <<"Linear", "Mixin">>
    [] c = "Block"   -> <<Module>>
    [] c = "Experts" -> <<Module>>
    [] c = "NewSub"  -> <<"Linear">>
    [] c = "NewTop"  -> <<Module>>

\* method resolution order (C3 linearisation) of each class
Mro(c) ==
  CASE c = "Linear"  -> <<"Linear", Module>>
    [] c = "Mixin"   -> <<"Mixin", Module>>
    [] c = "Fused"   -> <<"Fused", "Linear", "Mixin", Module>>
    [] c = "Block"   -> <<"Block", Module>>
    [] c = "Experts" -> <<"Experts", Module>>
    [] c = "NewSub"  -> <<"NewSub", "Linear", Module>>
    [] c = "NewTop"  -> <<"NewTop", Module>>
    [] c = Module    -> <<Module>>

\* does the class statement define __init__ itself?
OwnInit(c) == c # "Fused"

\* is the class's __init__ decorated with @no_shard_zero_decrator(False)?
Decorated(c) == c = "Experts"

\* shapes of the parameters the class's own __init__ registers on self
OwnParams(c) ==
  CASE c = "Linear"  -> << <<2, 3>> >>
    [] c = "Block"   -> << <<4>> >>
    [] c = "Experts" -> << <<2, 2>> >>
    [] c = "NewSub"  -> << <<3>> >>
    [] c = "NewTop"  -> << <<2>> >>
    [] OTHER         -> << >>

\* classes of the child modules the class's own __init__ constructs
Children(c) ==
  CASE c = "Block"   -> <<"Linear">>
    [] c = "Experts" -> <<"Linear">>
    [] OTHER         -> << >>

\* does the class's own __init__ also register its first child's first
\* parameter on itself (weight tying)?
Tied(c) == c = "Block"

\* number of parameters one construction of class c creates
NParams(c) ==
  CASE c = "Linear"  -> 1
    [] c = "Mixin"   -> 0
    [] c = "Fused"   -> 1
    [] c = "Block"   -> 2
    [] c = "Experts" -> 2
    [] c = "NewSub"  -> 2
    [] c = "NewTop"  -> 1

\* ---------------------------------------------------------------- state
VARIABLES
  declared,          \* Module subclasses that exist, in declaration order
  cls_init,          \* per class: __dict__['__init__'] (NoFn: inherited)
  cls_old_init,      \* per class: __dict__['_old_init'] (NoFn: absent)
  init_subclass,     \* Module.__init_subclass__: 0 default, k the closure of context k
  old_init_subclass, \* Module._old_init_subclass: -1 absent, else as above
  current_context,   \* ZeroContextMgr().current_context: 0 is None, else a context
  ctxs,              \* the ZeroInitContext objects built so far
  default_numel,     \* the default model_numel_tensor, evaluated once at def time
  params,            \* the nn.Parameter objects created so far
  cpu_rng,           \* torch's host generator state
  cuda_rng,          \* torch's accelerator generator state
  fan_routine,       \* nn.init._calculate_fan_in_and_fan_out
  with_stack,        \* the open with-statements of the user's program
  exc,               \* exception propagating through the user's program
  n_cfg,             \* ZeroContextConfig objects built so far
  draws,             \* user draws made so far
  group,             \* gpc.get_ranks_in_group(ParallelMode.DATA)
  last               \* observer: what the last operation of the process did

vars == <<declared, cls_init, cls_old_init, init_subclass, old_init_subclass,
          current_context, ctxs, default_numel, params, cpu_rng, cuda_rng,
          fan_routine, with_stack, exc, n_cfg, draws, group, last>>

\* -------------------------------------------------------------- values
\* A constructor function: the original __init__ written in class cls,
\* under the wrappers of preprocess_after; wraps lists, innermost first,
\* the contexts whose _post_init_method each wrapper calls.
NoFn == [cls |-> None, wraps |-> << >>]
ModuleInit == [cls |-> Module, wraps |-> << >>]
OrigInit(c) == [cls |-> c, wraps |-> << >>]

NoCfg == [id |-> 0, target_device |-> None, is_replicated |-> FALSE, shard_param |-> FALSE]
NoRng == [seed |-> 0, pos |-> -1]
InitialRng == [seed |-> 7, pos |-> 0]

RECURSIVE Prod(_)
Prod(shape) == IF shape = << >> THEN 1 ELSE Head(shape) * Prod(Tail(shape))
Numel(shape) == Prod(shape)

Front(s) == SubSeq(s, 1, Len(s) - 1)
Last(s) == s[Len(s)]
Range(s) == {s[i] : i \in 1..Len(s)}
IndexOf(s, x) == CHOOSE i \in 1..Len(s) : s[i] = x

\* ------------------------------------------------ constructor patching
\* cls.__subclasses__(): the declared classes with cls among their bases,
\* in declaration order
Subclasses(decl, cls) == SelectSeq(decl, LAMBDA d : cls \in Range(Bases(d)))

\* the order in which _substitute_init_recursively(cls, func) applies func:
\* for each subclass, first its own subclasses, then the subclass itself;
\* a class reachable through two bases is listed once per path
RECURSIVE VisitSeq(_, _), VisitEach(_, _)
VisitEach(decl, subs) ==
  IF subs = << >> THEN << >>
  ELSE VisitSeq(decl, Head(subs)) \o <<Head(subs)>> \o VisitEach(decl, Tail(subs))
VisitSeq(decl, cls) == VisitEach(decl, Subclasses(decl, cls))

\* attribute lookup cls.__init__ along the MRO of c, from position from;
\* Module's own __init__ is the end of every chain
RECURSIVE LookupFrom(_, _, _)
LookupFrom(dict, mro, from) ==
  IF from > Len(mro) THEN NoFn
  ELSE IF mro[from] = Module THEN NoFn
  ELSE IF dict[mro[from]] # NoFn THEN dict[mro[from]]
  ELSE LookupFrom(dict, mro, from + 1)

LookupInit(ci, c, from) ==
  LET f == LookupFrom(ci, Mro(c), from) IN IF f = NoFn THEN ModuleInit ELSE f

\* attribute lookup cls._old_init; Module has no such attribute
LookupOldInit(co, c) == LookupFrom(co, Mro(c), 1)

\* preprocess_after(f) as built inside context k's __enter__
preprocess_after(f, k) == [f EXCEPT !.wraps = Append(@, k)]

\* _enable_class(cls) keeping cls.__init__ as it is (line 45 left out)
enable_class_NoWrap(cd, c, k) ==
  LET f == LookupInit(cd.init, c, 1) IN
    [init |-> [cd.init EXCEPT ![c] = f],
     old  |-> [cd.old EXCEPT ![c] = f],
     ok   |-> TRUE]

\* _enable_class(cls)
enable_class(cd, c, k) ==
  LET f == LookupInit(cd.init, c, 1) IN
    [init |-> [cd.init EXCEPT ![c] = preprocess_after(f, k)],
     old  |-> [cd.old EXCEPT ![c] = f],
     ok   |-> TRUE]

\* _init_subclass(cls) as installed by context k
init_subclass_hook(ci, c, k) ==
  [ci EXCEPT ![c] = preprocess_after(LookupInit(ci, c, 1), k)]

\* _disable_class(cls); a failed lookup of _old_init raises AttributeError
disable_class(cd, c) ==
  LET f == LookupOldInit(cd.old, c) IN
    IF f = NoFn THEN [cd EXCEPT !.ok = FALSE]
    ELSE [cd EXCEPT !.init[c] = f]

\* _substitute_init_recursively(Module, _enable_class)
RECURSIVE EnableAll(_, _, _)
EnableAll(cd, visit, k) ==
  IF visit = << >> THEN cd
  ELSE EnableAll(enable_class(cd, Head(visit), k), Tail(visit), k)

\* _substitute_init_recursively(Module, _disable_class), stopping at the
\* first class whose _old_init lookup raises
RECURSIVE DisableAll(_, _)
DisableAll(cd, visit) ==
  IF visit = << >> \/ ~cd.ok THEN cd
  ELSE DisableAll(disable_class(cd, Head(visit)), Tail(visit))

\* ---------------------------------------------------- ZeroContextConfig
\* ZeroContextConfig.__init__ without the assert of line 107
ZeroContextConfig_NoDeviceAssert(target_device, replicated, shard_param, id) ==
  IF shard_param /\ ~replicated
  THEN [raised |-> TRUE, cfg |-> [id |-> 0, target_device |-> None,
                                  is_replicated |-> FALSE, shard_param |-> FALSE]]
  ELSE [raised |-> FALSE,
        cfg |-> [id |-> id, target_device |-> target_device,
                 is_replicated |-> replicated, shard_param |-> shard_param]]

\* ZeroContextConfig.__init__: the two asserts, then the three fields.
\* raised: an AssertionError left the constructor; cfg: the fields set.
ZeroContextConfig(target_device, replicated, shard_param, id) ==
  IF shard_param /\ ~replicated THEN [raised |-> TRUE, cfg |-> NoCfg]
  ELSE IF replicated /\ ~shard_param /\ target_device # "cuda"
    THEN [raised |-> TRUE, cfg |-> NoCfg]
  ELSE [raised |-> FALSE,
        cfg |-> [id |-> id, target_device |-> target_device,
                 is_replicated |-> replicated, shard_param |-> shard_param]]

\* ------------------------------------------------------ _post_init_method
IsFloatingPoint(dtype) == dtype \in {"float32", "float16"}
half_fn(dtype) == IF IsFloatingPoint(dtype) THEN "float16" ELSE dtype

\* a fresh nn.Parameter of the given shape, initialised from the host
\* generator in state rng, created while context scope was active
NewParam(shape, rng, scope, owner) ==
  [shape |-> shape, dtype |-> "float32", device |-> "cpu",
   payload |-> <<rng.seed, rng.pos>>,
   colo_attr |-> FALSE, is_replicated |-> FALSE, is_sharded |-> FALSE,
   origin_shape |-> << >>, origin_numel |-> 0, origin_dtype |-> None,
   has_torch_payload |-> TRUE,
   scope |-> scope, owner |-> owner, wrapped_by |-> 0,
   wrapped_shard |-> FALSE, n_shard |-> 0]

\* ShardedParamV2(param, rm_torch_payload=False): ShardedTensor(param.data)
\* records the origin shape, numel and dtype and starts unsharded
ShardedParamV2(q) ==
  [q EXCEPT !.colo_attr = TRUE, !.origin_shape = q.shape,
            !.origin_numel = Numel(q.shape), !.origin_dtype = q.dtype,
            !.is_sharded = FALSE]

\* shard_strategy.shard([t], group): the payload becomes the flat local
\* partition and is_sharded becomes true
ShardStrategyShard(q, world_size) ==
  IF q.is_sharded THEN q
  ELSE [q EXCEPT !.is_sharded = TRUE,
                 !.shape = <<(Numel(q.shape) + world_size - 1) \div world_size>>,
                 !.n_shard = @ + 1]

\* lines 236-264 with line 264 as self.param_list.insert(0, param)
PostInitParam_Prepend(st, k, p) ==
  LET q   == st.params[p]
      ctx == st.ctxs[k]
      cfg == ctx.config
      q1  == [q EXCEPT !.is_replicated = cfg.is_replicated,
                       !.dtype = half_fn(@),
                       !.device = cfg.target_device,
                       !.wrapped_by = k, !.wrapped_shard = cfg.shard_param]
      q2  == ShardedParamV2(q1)
      q3  == IF cfg.shard_param THEN ShardStrategyShard(q2, st.ws) ELSE q2
      st1 == IF ctx.numel = "default"
             THEN [st EXCEPT !.default_numel = @ + Numel(q.shape)]
             ELSE [st EXCEPT !.ctxs[k].own_numel = @ + Numel(q.shape)]
      st2 == [st1 EXCEPT !.params[p] = q3]
  IN  IF q.colo_attr THEN st
      ELSE IF ctx.has_param_list
        THEN [st2 EXCEPT !.ctxs[k].param_list = <<p>> \o @]
        ELSE [st2 EXCEPT !.exc = "AttributeError"]

\* lines 236-264 marking every parameter replicated (line 243 as
\* param.is_replicated = True)
PostInitParam_AlwaysReplicated(st, k, p) ==
  LET q   == st.params[p]
      ctx == st.ctxs[k]
      cfg == ctx.config
      q1  == [q EXCEPT !.is_replicated = TRUE,
                       !.dtype = half_fn(@),
                       !.device = cfg.target_device,
                       !.wrapped_by = k, !.wrapped_shard = cfg.shard_param]
      q2  == ShardedParamV2(q1)
      q3  == IF cfg.shard_param THEN ShardStrategyShard(q2, st.ws) ELSE q2
      st1 == IF ctx.numel = "default"
             THEN [st EXCEPT !.default_numel = @ + Numel(q.shape)]
             ELSE [st EXCEPT !.ctxs[k].own_numel = @ + Numel(q.shape)]
      st2 == [st1 EXCEPT !.params[p] = q3]
  IN  IF q.colo_attr THEN st
      ELSE IF ctx.has_param_list
        THEN [st2 EXCEPT !.ctxs[k].param_list = Append(@, p)]
        ELSE [st2 EXCEPT !.exc = "AttributeError"]

\* lines 236-264 applied to a parameter whether or not it has colo_attr
PostInitParam_Rewrap(st, k, p) ==
  LET q   == st.params[p]
      ctx == st.ctxs[k]
      cfg == ctx.config
      q1  == [q EXCEPT !.is_replicated = cfg.is_replicated,
                       !.dtype = half_fn(@),
                       !.device = cfg.target_device,
                       !.wrapped_by = k, !.wrapped_shard = cfg.shard_param]
      q2  == IF q.colo_attr THEN q1 ELSE ShardedParamV2(q1)
      q3  == IF cfg.shard_param
             THEN [q2 EXCEPT !.is_sharded = TRUE, !.n_shard = @ + 1,
                     !.shape = <<(Numel(q2.origin_shape) + st.ws - 1) \div st.ws>>]
             ELSE q2
      st2 == [st EXCEPT !.params[p] = q3]
  IN  IF ctx.has_param_list
      THEN [st2 EXCEPT !.ctxs[k].param_list = Append(@, p)]
      ELSE [st2 EXCEPT !.exc = "AttributeError"]

\* lines 236-264 without the test of lines 237-238
PostInitParam_NoSkip(st, k, p) ==
  LET q   == st.params[p]
      ctx == st.ctxs[k]
      cfg == ctx.config
      q1  == [q EXCEPT !.is_replicated = cfg.is_replicated,
                       !.dtype = half_fn(@),
                       !.device = cfg.target_device,
                       !.wrapped_by = k, !.wrapped_shard = cfg.shard_param]
      q3  == IF q.colo_attr THEN q
             ELSE IF cfg.shard_param THEN ShardStrategyShard(ShardedParamV2(q1), st.ws)
             ELSE ShardedParamV2(q1)
      n   == IF q.colo_attr THEN q.origin_numel ELSE Numel(q.shape)
      st1 == IF ctx.numel = "default"
             THEN [st EXCEPT !.default_numel = @ + n]
             ELSE [st EXCEPT !.ctxs[k].own_numel = @ + n]
      st2 == [st1 EXCEPT !.params[p] = q3]
  IN  IF q.colo_attr THEN st2
      ELSE IF ctx.has_param_list
        THEN [st2 EXCEPT !.ctxs[k].param_list = Append(@, p)]
        ELSE [st2 EXCEPT !.exc = "AttributeError"]

\* the transformation of one parameter by context k (lines 236-264)
PostInitParam(st, k, p) ==
  LET q   == st.params[p]
      ctx == st.ctxs[k]
      cfg == ctx.config
      q1  == [q EXCEPT !.is_replicated = cfg.is_replicated,
                       !.dtype = half_fn(@),
                       !.device = cfg.target_device,
                       !.wrapped_by = k, !.wrapped_shard = cfg.shard_param]
      q2  == ShardedParamV2(q1)
      q3  == IF cfg.shard_param THEN ShardStrategyShard(q2, st.ws) ELSE q2
      st1 == IF ctx.numel = "default"
             THEN [st EXCEPT !.default_numel = @ + Numel(q.shape)]
             ELSE [st EXCEPT !.ctxs[k].own_numel = @ + Numel(q.shape)]
      st2 == [st1 EXCEPT !.params[p] = q3]
  IN  IF q.colo_attr THEN st
      ELSE IF ctx.has_param_list
        THEN [st2 EXCEPT !.ctxs[k].param_list = Append(@, p)]
        ELSE [st2 EXCEPT !.exc = "AttributeError"]

\* the loop of _post_init_method over module.parameters(recurse=False)
RECURSIVE PostInitLoop(_, _, _)
PostInitLoop(st, k, ps) ==
  IF ps = << >> \/ st.exc # None THEN st
  ELSE PostInitLoop(PostInitParam(st, k, Head(ps)), k, Tail(ps))

\* _post_init_method(module) of context k on module instance m
post_init_method(st, k, m) ==
  PostInitLoop([st EXCEPT !.ev = Append(@, [e |-> "hook", m |-> m, k |-> k])],
               k, st.mods[m])

\* ------------------------------------------------- running constructors
\* st is the part of the process state a constructor call reads and
\* writes: ci (the classes' __init__), cc (current_context), ws (size of
\* the data-parallel group), scope (the active scope, 0 if none), params,
\* ctxs, default_numel, rng (host generator), n_cfg, mods (per module
\* instance, its own parameters), ev (what ran, in order), exc.

RECURSIVE Call(_, _, _, _), Orig(_, _, _, _), Body(_, _, _, _),
          BuildChildren(_, _, _, _), RegisterParams(_, _, _, _)

\* calling function f on module instance m whose class is t (lines 37-39:
\* a wrapper runs the wrapped function, then the hook of its context)
Call(st, f, m, t) ==
  IF st.exc # None THEN st
  ELSE IF f.wraps # << >>
    THEN LET inner == Call(st, [f EXCEPT !.wraps = Front(@)], m, t) IN
           IF inner.exc # None THEN inner
           ELSE post_init_method(inner, Last(f.wraps), m)
  ELSE Orig(st, f.cls, m, t)

\* self.register_parameter for each shape, drawing the initial values
RegisterParams(st, c, shapes, m) ==
  IF shapes = << >> THEN st
  ELSE LET p == Len(st.params) + 1 IN
    RegisterParams(
      [st EXCEPT !.params = Append(@, NewParam(Head(shapes), st.rng, st.scope, c)),
                 !.rng.pos = @ + 1,
                 !.mods[m] = Append(@, p)],
      c, Tail(shapes), m)

\* self.child = Cls(): type.__call__ runs Cls.__init__ on a new instance
BuildChildren(st, c, chs, m) ==
  IF chs = << >> \/ st.exc # None THEN st
  ELSE LET m2  == Len(st.mods) + 1
           st1 == Call([st EXCEPT !.mods = Append(@, << >>)],
                       LookupInit(st.ci, Head(chs), 1), m2, Head(chs))
           st2 == IF st1.exc = None /\ Tied(c) /\ st1.mods[m2] # << >>
                  THEN [st1 EXCEPT !.mods[m] = Append(@, st1.mods[m2][1])]
                  ELSE st1
       IN  BuildChildren(st2, c, Tail(chs), m)

\* the statements of the __init__ written in class c, on instance m of
\* class t: super().__init__(), the child modules, the own parameters
Body(st, c, m, t) ==
  LET st1 == Call(st, LookupInit(st.ci, t, IndexOf(Mro(t), c) + 1), m, t)
      st2 == BuildChildren(st1, c, Children(c), m)
      st3 == IF st2.exc # None THEN st2 ELSE RegisterParams(st2, c, OwnParams(c), m)
  IN  IF st3.exc # None THEN st3
      ELSE [st3 EXCEPT !.ev = Append(@, [e |-> "orig", m |-> m, k |-> 0])]

\* the original __init__ of class c; a decorated one runs its body inside
\* hijack_context_config (lines 278-285, 288-304)
Orig(st, c, m, t) ==
  IF c = Module THEN st
  ELSE IF ~Decorated(c) \/ st.cc = 0 THEN Body(st, c, m, t)
  ELSE LET old_config == st.ctxs[st.cc].config
           new == ZeroContextConfig("cuda", FALSE, FALSE, st.n_cfg + 1)
           st1 == [st EXCEPT !.ctxs[st.cc].config = new.cfg, !.n_cfg = @ + 1]
           st2 == Body(st1, c, m, t)
       IN  IF st2.exc # None THEN st2
           ELSE [st2 EXCEPT !.ctxs[st.cc].config = old_config]

\* ------------------------------------------------------------ processes
\* last: the last operation, when it was a constructor call (op, cls, the
\* active scope, the constructors and hooks that ran, the exception), a
\* ZeroContextConfig(...) call (op, the arguments, the fields set, the
\* exception) or a calc_fanin_fanout call (op, the result, the exception);
\* NoLast after any other operation
NoLast == [op |-> None, cls |-> None, scope |-> 0, ev |-> << >>,
           raised |-> None, args |-> << >>, cfg |-> NoCfg, fan |-> << >>]

Frame(kind, k, passthru, old_config) ==
  [kind |-> kind, k |-> k, passthru |-> passthru, old_config |-> old_config]

\* the context whose scope the process is inside (0: none)
ActiveCtx(r) ==
  IF \E k \in 1..Len(ctxs[r]) : ctxs[r][k].phase = "active"
  THEN CHOOSE k \in 1..Len(ctxs[r]) : ctxs[r][k].phase = "active"
  ELSE 0

\* the process is inside dist.broadcast, waiting for the group
Blocked(r) == \E k \in 1..Len(ctxs[r]) : ctxs[r][k].phase = "exiting"

\* the process can run a statement of the user's program
Running(r) == r \in group /\ exc[r] = None /\ ~Blocked(r)

\* the value of the model_numel_tensor of context k of cs, dn being the
\* default tensor
Counter(cs, dn, k) ==
  IF cs[k].numel = "default" THEN dn ELSE cs[k].own_numel

HijackDepth(r) == Len(SelectSeq(with_stack[r], LAMBDA f : f.kind = "hijack"))

\* an exception leaving a statement propagates while a with-statement
\* is open; at top level it ends in the caller's handler
Propagate(stack, e) == IF stack = << >> THEN None ELSE e

InitProcess ==
  /\ declared = [r \in Ranks |-> InitialClasses]
  /\ cls_init = [r \in Ranks |-> [c \in Classes |->
                   IF c \in Range(InitialClasses) /\ OwnInit(c)
                   THEN OrigInit(c) ELSE NoFn]]
  /\ cls_old_init = [r \in Ranks |-> [c \in Classes |-> NoFn]]
  /\ init_subclass = [r \in Ranks |-> 0]
  /\ old_init_subclass = [r \in Ranks |-> -1]
  /\ current_context = [r \in Ranks |-> 0]
  /\ ctxs = [r \in Ranks |-> << >>]
  /\ default_numel = [r \in Ranks |-> 0]
  /\ cpu_rng = [r \in Ranks |-> InitialRng]
  /\ cuda_rng = [r \in Ranks |-> [InitialRng EXCEPT !.seed = 9]]
  /\ fan_routine = [r \in Ranks |-> "torch"]
  /\ with_stack = [r \in Ranks |-> << >>]
  /\ exc = [r \in Ranks |-> None]
  /\ n_cfg = [r \in Ranks |-> 0]
  /\ draws = [r \in Ranks |-> 0]
  /\ last = [r \in Ranks |-> NoLast]

\* a process that is rank 1 of a data-parallel group of its own
Init ==
  /\ InitProcess
  /\ params = [r \in Ranks |-> << >>]
  /\ group = {1}

\* ZeroInitContext(target_device, shard_strategy, seed, shard_param,
\* model_numel_tensor), lines 129-145; numel says whether the caller passed
\* a tensor of its own ("own") or left the default ("default")
NewContext(r, target_device, seed, shard_param, numel) ==
  LET new == ZeroContextConfig(target_device, TRUE, shard_param, n_cfg[r] + 1)
      me  == [config |-> new.cfg, param_list |-> << >>, has_param_list |-> TRUE,
              numel |-> numel, own_numel |-> 0, seed |-> seed,
              cpu_rng_state |-> NoRng, cuda_rng_state |-> NoRng,
              nn_fanin_fanout |-> None, phase |-> "built", pos |-> 0,
              bcast |-> << >>, swept |-> << >>,
              pre |-> [cpu |-> NoRng, cuda |-> NoRng, fan |-> None]]
  IN
  /\ Running(r)
  /\ Len(ctxs[r]) < MaxCtx
  /\ n_cfg[r] < MaxCfg
  /\ \A k \in 1..Len(ctxs[r]) : ctxs[r][k].phase \notin {"built", "active"}
  /\ IF new.raised
     THEN /\ exc' = [exc EXCEPT ![r] = Propagate(with_stack[r], "AssertionError")]
          /\ UNCHANGED <<ctxs, current_context, n_cfg>>
     ELSE /\ ctxs' = [ctxs EXCEPT ![r] = Append(@, me)]
          /\ current_context' = [current_context EXCEPT ![r] = Len(ctxs[r]) + 1]
          /\ n_cfg' = [n_cfg EXCEPT ![r] = @ + 1]
          /\ UNCHANGED exc
  /\ last' = [last EXCEPT ![r] =
       [NoLast EXCEPT !.op = "config",
                      !.args = <<target_device, TRUE, shard_param>>,
                      !.cfg = new.cfg,
                      !.raised = IF new.raised THEN "AssertionError" ELSE None]]
  /\ UNCHANGED <<declared, cls_init, cls_old_init, init_subclass,
                 old_init_subclass, default_numel, params, cpu_rng, cuda_rng,
                 fan_routine, with_stack, draws, group>>

\* the seed _pre_context_exec installs (lines 206-207)
InstalledSeed(seed, rank) == LET offset == seed + 1 IN seed + offset * rank

\* torch.manual_seed(seed): both generators restart from seed
manual_seed(seed) == [seed |-> seed, pos |-> 0]

\* with ctx: -- __enter__ (lines 29-60) and _pre_context_exec (189-207).
\* pre_ok = FALSE: torch.cuda.get_rng_state() raises, the statement fails
\* and __exit__ is not called.
Enter(r, pre_ok) ==
  LET k   == Len(ctxs[r])
      cd  == EnableAll([init |-> cls_init[r], old |-> cls_old_init[r], ok |-> TRUE],
                       VisitSeq(declared[r], Module), k)
      ctx == ctxs[r][k]
      pre == [cpu |-> cpu_rng[r], cuda |-> cuda_rng[r], fan |-> fan_routine[r]]
      installed == manual_seed(InstalledSeed(ctx.seed, r))
  IN
  /\ Running(r)
  /\ k > 0
  /\ ctxs[r][k].phase = "built"
  /\ cls_init' = [cls_init EXCEPT ![r] = cd.init]
  /\ cls_old_init' = [cls_old_init EXCEPT ![r] = cd.old]
  /\ old_init_subclass' = [old_init_subclass EXCEPT ![r] = init_subclass[r]]
  /\ init_subclass' = [init_subclass EXCEPT ![r] = k]
  /\ fan_routine' = [fan_routine EXCEPT ![r] = "colo"]
  /\ IF pre_ok
     THEN /\ ctxs' = [ctxs EXCEPT ![r][k] =
                [ctx EXCEPT !.nn_fanin_fanout = fan_routine[r],
                            !.cpu_rng_state = cpu_rng[r],
                            !.cuda_rng_state = cuda_rng[r],
                            !.phase = "active", !.pre = pre]]
          /\ cpu_rng' = [cpu_rng EXCEPT ![r] = installed]
          /\ cuda_rng' = [cuda_rng EXCEPT ![r] = installed]
          /\ with_stack' = [with_stack EXCEPT ![r] =
                Append(@, Frame("scope", k, FALSE, NoCfg))]
          /\ UNCHANGED exc
     ELSE /\ ctxs' = [ctxs EXCEPT ![r][k] =
                [ctx EXCEPT !.nn_fanin_fanout = fan_routine[r],
                            !.cpu_rng_state = cpu_rng[r],
                            !.phase = "enter_raised", !.pre = pre]]
          /\ exc' = [exc EXCEPT ![r] = Propagate(with_stack[r], "RuntimeError")]
          /\ UNCHANGED <<cpu_rng, cuda_rng, with_stack>>
  /\ last' = [last EXCEPT ![r] = NoLast]
  /\ UNCHANGED <<declared, current_context, default_numel, params, n_cfg,
                 draws, group>>

\* module = Cls(): type.__call__ runs Cls.__init__ on a new instance
Construct(r, c) ==
  LET k  == ActiveCtx(r)
      st == Call([ci |-> cls_init[r], cc |-> current_context[r],
                  ws |-> Cardinality(group), scope |-> k,
                  params |-> params[r], ctxs |-> ctxs[r],
                  default_numel |-> default_numel[r], rng |-> cpu_rng[r],
                  n_cfg |-> n_cfg[r], mods |-> << << >> >>, ev |-> << >>,
                  exc |-> None],
                 LookupInit(cls_init[r], c, 1), 1, c)
  IN
  /\ Running(r)
  /\ c \in Range(declared[r])
  /\ Len(params[r]) + NParams(c) <= MaxParams
  /\ Decorated(c) /\ current_context[r] # 0 => n_cfg[r] < MaxCfg
  /\ params' = [params EXCEPT ![r] = st.params]
  /\ ctxs' = [ctxs EXCEPT ![r] = st.ctxs]
  /\ default_numel' = [default_numel EXCEPT ![r] = st.default_numel]
  /\ cpu_rng' = [cpu_rng EXCEPT ![r] = st.rng]
  /\ n_cfg' = [n_cfg EXCEPT ![r] = st.n_cfg]
  /\ exc' = [exc EXCEPT ![r] = Propagate(with_stack[r], st.exc)]
  /\ last' = [last EXCEPT ![r] =
       [NoLast EXCEPT !.op = "construct", !.cls = c, !.scope = k,
                      !.ev = st.ev, !.raised = st.exc]]
  /\ UNCHANGED <<declared, cls_init, cls_old_init, init_subclass,
                 old_init_subclass, current_context, cuda_rng, fan_routine,
                 with_stack, draws, group>>

\* class C(Base): ... inside the scope -- type.__new__ runs
\* Module.__init_subclass__
DeclareClass(r, c) ==
  LET own == [cls_init[r] EXCEPT ![c] = IF OwnInit(c) THEN OrigInit(c) ELSE NoFn]
      k   == ActiveCtx(r)
  IN
  /\ Running(r)
  /\ k # 0
  /\ c \in LateClasses
  /\ c \notin Range(declared[r])
  /\ declared' = [declared EXCEPT ![r] = Append(@, c)]
  /\ cls_init' = [cls_init EXCEPT ![r] =
       IF init_subclass[r] = 0 THEN own
       ELSE init_subclass_hook(own, c, init_subclass[r])]
  /\ last' = [last EXCEPT ![r] = NoLast]
  /\ UNCHANGED <<ctxs, cls_old_init, init_subclass, old_init_subclass,
                 current_context, default_numel, params, cpu_rng, cuda_rng,
                 fan_routine, with_stack, exc, n_cfg, draws, group>>

\* the user's program, inside the scope, draws from a generator
Draw(r, device) ==
  /\ Running(r)
  /\ ActiveCtx(r) # 0
  /\ draws[r] < MaxDraws
  /\ draws' = [draws EXCEPT ![r] = @ + 1]
  /\ IF device = "cpu"
     THEN cpu_rng' = [cpu_rng EXCEPT ![r].pos = @ + 1] /\ UNCHANGED cuda_rng
     ELSE cuda_rng' = [cuda_rng EXCEPT ![r].pos = @ + 1] /\ UNCHANGED cpu_rng
  /\ last' = [last EXCEPT ![r] = NoLast]
  /\ UNCHANGED <<declared, cls_init, cls_old_init, init_subclass,
                 old_init_subclass, current_context, ctxs, default_numel,
                 params, fan_routine, with_stack, exc, n_cfg, group>>

\* lines 279-284 building the config before the test of line 279
HijackEnter_AlwaysBuild(r, target_device, replicated, shard_param) ==
  LET cc  == current_context[r]
      new == ZeroContextConfig(target_device, replicated, shard_param, n_cfg[r] + 1)
  IN
  /\ Running(r)
  /\ HijackDepth(r) < MaxDepth
  /\ n_cfg[r] < MaxCfg
  /\ IF new.raised
     THEN /\ exc' = [exc EXCEPT ![r] = Propagate(with_stack[r], "AssertionError")]
          /\ UNCHANGED <<ctxs, with_stack, n_cfg>>
     ELSE /\ ctxs' = IF cc = 0 THEN ctxs
                     ELSE [ctxs EXCEPT ![r][cc].config = new.cfg]
          /\ with_stack' = [with_stack EXCEPT ![r] =
                Append(@, Frame("hijack", cc, cc = 0,
                                IF cc = 0 THEN NoCfg ELSE ctxs[r][cc].config))]
          /\ n_cfg' = [n_cfg EXCEPT ![r] = @ + 1]
          /\ UNCHANGED exc
  /\ last' = [last EXCEPT ![r] =
       [NoLast EXCEPT !.op = IF cc = 0 THEN "hijack" ELSE "config",
          !.args = <<target_device, replicated, shard_param>>,
          !.cfg = new.cfg,
          !.raised = IF new.raised THEN "AssertionError" ELSE None]]
  /\ UNCHANGED <<declared, cls_init, cls_old_init, init_subclass,
                 old_init_subclass, current_context, default_numel, params,
                 cpu_rng, cuda_rng, fan_routine, draws, group>>

\* with ZeroContextMgr().hijack_context_config(**kwargs): -- the part of
\* the generator before yield (lines 279-284)
HijackEnter(r, target_device, replicated, shard_param) ==
  LET cc  == current_context[r]
      k   == ActiveCtx(r)
      new == ZeroContextConfig(target_device, replicated, shard_param, n_cfg[r] + 1)
      old_config == ctxs[r][cc].config
  IN
  /\ Running(r)
  /\ HijackDepth(r) < MaxDepth
  /\ IF cc = 0
     THEN /\ with_stack' = [with_stack EXCEPT ![r] =
                Append(@, Frame("hijack", 0, TRUE, NoCfg))]
          /\ last' = [last EXCEPT ![r] =
               [NoLast EXCEPT !.op = "hijack",
                  !.args = <<target_device, replicated, shard_param>>]]
          /\ UNCHANGED <<ctxs, exc, n_cfg>>
     ELSE /\ n_cfg[r] < MaxCfg
          /\ IF new.raised
             THEN /\ exc' = [exc EXCEPT ![r] =
                        Propagate(with_stack[r], "AssertionError")]
                  /\ UNCHANGED <<ctxs, with_stack, n_cfg>>
             ELSE /\ ctxs' = [ctxs EXCEPT ![r][cc].config = new.cfg]
                  /\ with_stack' = [with_stack EXCEPT ![r] =
                        Append(@, Frame("hijack", cc, FALSE, old_config))]
                  /\ n_cfg' = [n_cfg EXCEPT ![r] = @ + 1]
                  /\ UNCHANGED exc
          /\ last' = [last EXCEPT ![r] =
               [NoLast EXCEPT !.op = "config",
                  !.args = <<target_device, replicated, shard_param>>,
                  !.cfg = new.cfg,
                  !.raised = IF new.raised THEN "AssertionError" ELSE None]]
  /\ UNCHANGED <<declared, cls_init, cls_old_init, init_subclass,
                 old_init_subclass, current_context, default_numel, params,
                 cpu_rng, cuda_rng, fan_routine, draws, group>>

\* the nested scope of a hijack ends normally: the generator resumes after
\* yield (line 285)
HijackExit(r) ==
  LET f  == Last(with_stack[r])
      k  == ActiveCtx(r)
      cs == IF f.passthru THEN ctxs[r]
            ELSE [ctxs[r] EXCEPT ![current_context[r]].config = f.old_config]
  IN
  /\ Running(r)
  /\ with_stack[r] # << >>
  /\ f.kind = "hijack"
  /\ with_stack' = [with_stack EXCEPT ![r] = Front(@)]
  /\ ctxs' = [ctxs EXCEPT ![r] = cs]
  /\ last' = [last EXCEPT ![r] = NoLast]
  /\ UNCHANGED <<declared, cls_init, cls_old_init, init_subclass,
                 old_init_subclass, current_context, default_numel, params,
                 cpu_rng, cuda_rng, fan_routine, exc, n_cfg, draws, group>>

\* a statement of the user's program inside a with-statement raises
RaiseInBody(r) ==
  /\ Running(r)
  /\ with_stack[r] # << >>
  /\ exc' = [exc EXCEPT ![r] = "RuntimeError"]
  /\ last' = [last EXCEPT ![r] = NoLast]
  /\ UNCHANGED <<declared, cls_init, cls_old_init, init_subclass,
                 old_init_subclass, current_context, ctxs, default_numel,
                 params, cpu_rng, cuda_rng, fan_routine, with_stack, n_cfg,
                 draws, group>>

\* a try/except of the user's program, inside the innermost open
\* with-statement, handles the exception
Catch(r) ==
  /\ r \in group
  /\ exc[r] # None
  /\ ~Blocked(r)
  /\ exc' = [exc EXCEPT ![r] = None]
  /\ last' = [last EXCEPT ![r] = NoLast]
  /\ UNCHANGED <<declared, cls_init, cls_old_init, init_subclass,
                 old_init_subclass, current_context, ctxs, default_numel,
                 params, cpu_rng, cuda_rng, fan_routine, with_stack, n_cfg,
                 draws, group>>

\* the exception leaves the nested scope of a hijack: contextmanager
\* throws it into the generator at yield, which has no handler, so line
\* 285 does not run
HijackUnwind(r) ==
  LET f == Last(with_stack[r])
      k == ActiveCtx(r)
  IN
  /\ r \in group
  /\ exc[r] # None
  /\ ~Blocked(r)
  /\ with_stack[r] # << >>
  /\ f.kind = "hijack"
  /\ with_stack' = [with_stack EXCEPT ![r] = Front(@)]
  /\ exc' = [exc EXCEPT ![r] = Propagate(Front(with_stack[r]), exc[r])]
  /\ last' = [last EXCEPT ![r] = NoLast]
  /\ UNCHANGED <<declared, cls_init, cls_old_init, init_subclass,
                 old_init_subclass, current_context, ctxs, default_numel,
                 params, cpu_rng, cuda_rng, fan_routine, n_cfg, draws, group>>

\* ------------------------------------------------------------ scope exit
\* the test of line 216 without its first conjunct
NeedsBroadcast_IgnoreSharded(q) == q.is_replicated

\* the test of line 216
NeedsBroadcast(q) == ~q.is_sharded /\ q.is_replicated

\* the loop of _post_context_exec (lines 214-218) from position i up to
\* the next dist.broadcast: a parameter that is not broadcast only has its
\* torch payload removed
RECURSIVE Sweep(_, _, _)
Sweep(ps, param_list, i) ==
  IF i > Len(param_list) THEN [params |-> ps, pos |-> i]
  ELSE IF NeedsBroadcast(ps[param_list[i]]) THEN [params |-> ps, pos |-> i]
  ELSE Sweep([ps EXCEPT ![param_list[i]].has_torch_payload = FALSE],
             param_list, i + 1)

\* _post_context_exec without line 224
post_context_exec_KeepCuda(r, k, ps, from, bc) ==
  LET ctx   == ctxs[r][k]
      sw    == Sweep(ps, ctx.param_list, from)
      done  == sw.pos > Len(ctx.param_list)
      stack == Front(with_stack[r])
  IN  [params |-> sw.params,
       ctx    |-> IF done
                  THEN [ctx EXCEPT !.phase = "exited", !.has_param_list = FALSE,
                                   !.swept = ctx.param_list, !.param_list = << >>,
                                   !.pos = 0, !.bcast = bc]
                  ELSE [ctx EXCEPT !.phase = "exiting", !.pos = sw.pos, !.bcast = bc],
       fan    |-> IF done THEN ctx.nn_fanin_fanout ELSE fan_routine[r],
       cpu    |-> IF done THEN ctx.cpu_rng_state ELSE cpu_rng[r],
       cuda   |-> cuda_rng[r],
       stack  |-> IF done THEN stack ELSE with_stack[r],
       exc    |-> IF done THEN Propagate(stack, exc[r]) ELSE exc[r],
       done   |-> done]

\* _post_context_exec of context k from position from of the loop, with
\* the parameters ps and the broadcasts bc made so far: up to the next
\* broadcast, or to the end (lines 220-224) when none is left
post_context_exec(r, k, ps, from, bc) ==
  LET ctx   == ctxs[r][k]
      sw    == Sweep(ps, ctx.param_list, from)
      done  == sw.pos > Len(ctx.param_list)
      stack == Front(with_stack[r])
  IN  [params |-> sw.params,
       ctx    |-> IF done
                  THEN [ctx EXCEPT !.phase = "exited", !.has_param_list = FALSE,
                                   !.swept = ctx.param_list, !.param_list = << >>,
                                   !.pos = 0, !.bcast = bc]
                  ELSE [ctx EXCEPT !.phase = "exiting", !.pos = sw.pos, !.bcast = bc],
       fan    |-> IF done THEN ctx.nn_fanin_fanout ELSE fan_routine[r],
       cpu    |-> IF done THEN ctx.cpu_rng_state ELSE cpu_rng[r],
       cuda   |-> IF done THEN ctx.cuda_rng_state ELSE cuda_rng[r],
       stack  |-> IF done THEN stack ELSE with_stack[r],
       exc    |-> IF done THEN Propagate(stack, exc[r]) ELSE exc[r],
       done   |-> done]

\* the with-statement of the context ends, normally or with the exception
\* exc[r]: __exit__ (lines 62-76), up to the first broadcast
Exit(r) ==
  LET f  == Last(with_stack[r])
      k  == f.k
      cd == DisableAll([init |-> cls_init[r], old |-> cls_old_init[r], ok |-> TRUE],
                       VisitSeq(declared[r], Module))
      ctx == ctxs[r][k]
      res == post_context_exec(r, k, params[r], 1, << >>)
  IN
  /\ r \in group
  /\ ~Blocked(r)
  /\ with_stack[r] # << >>
  /\ f.kind = "scope"
  /\ cls_init' = [cls_init EXCEPT ![r] = cd.init]
  /\ IF cd.ok
     THEN /\ init_subclass' = [init_subclass EXCEPT ![r] = old_init_subclass[r]]
          /\ params' = [params EXCEPT ![r] = res.params]
          /\ ctxs' = [ctxs EXCEPT ![r][k] = res.ctx]
          /\ fan_routine' = [fan_routine EXCEPT ![r] = res.fan]
          /\ cpu_rng' = [cpu_rng EXCEPT ![r] = res.cpu]
          /\ cuda_rng' = [cuda_rng EXCEPT ![r] = res.cuda]
          /\ with_stack' = [with_stack EXCEPT ![r] = res.stack]
          /\ exc' = [exc EXCEPT ![r] = res.exc]
          /\ last' = [last EXCEPT ![r] = NoLast]
     ELSE /\ ctxs' = [ctxs EXCEPT ![r][k] = [ctx EXCEPT !.phase = "exit_raised"]]
          /\ with_stack' = [with_stack EXCEPT ![r] = Front(@)]
          /\ exc' = [exc EXCEPT ![r] =
                Propagate(Front(with_stack[r]), "AttributeError")]
          /\ last' = [last EXCEPT ![r] = NoLast]
          /\ UNCHANGED <<init_subclass, params, fan_routine, cpu_rng, cuda_rng>>
  /\ UNCHANGED <<declared, cls_old_init, old_init_subclass, current_context,
                 default_numel, n_cfg, draws, group>>

\* the context a blocked process is exiting
ExitingCtx(r) == CHOOSE k \in 1..Len(ctxs[r]) : ctxs[r][k].phase = "exiting"

\* line 213 taking the last rank of the group
src_rank_Last == CHOOSE r \in group : \A q \in group : r >= q

\* the first rank of the data-parallel group (line 213)
src_rank == CHOOSE r \in group : \A q \in group : r <= q

\* dist.broadcast(tensor=param.data, src=src_rank, group): every rank of
\* the group is inside its next broadcast; each receives the payload the
\* source rank passed, then runs on to its next broadcast or to the end
Broadcast ==
  LET at(r)  == ctxs[r][ExitingCtx(r)].param_list[ctxs[r][ExitingCtx(r)].pos]
      sent   == params[src_rank][at(src_rank)].payload
      got(r) == [params[r] EXCEPT ![at(r)].payload = sent,
                                 ![at(r)].has_torch_payload = FALSE]
      res(r) == post_context_exec(r, ExitingCtx(r), got(r),
                                  ctxs[r][ExitingCtx(r)].pos + 1,
                                  Append(ctxs[r][ExitingCtx(r)].bcast, at(r)))
      upd(v, new(_)) == [r \in Ranks |-> IF r \in group THEN new(r) ELSE v[r]]
  IN
  /\ \A r \in group : Blocked(r)
  /\ params' = upd(params, LAMBDA r : res(r).params)
  /\ ctxs' = upd(ctxs, LAMBDA r : [ctxs[r] EXCEPT ![ExitingCtx(r)] = res(r).ctx])
  /\ fan_routine' = upd(fan_routine, LAMBDA r : res(r).fan)
  /\ cpu_rng' = upd(cpu_rng, LAMBDA r : res(r).cpu)
  /\ cuda_rng' = upd(cuda_rng, LAMBDA r : res(r).cuda)
  /\ with_stack' = upd(with_stack, LAMBDA r : res(r).stack)
  /\ exc' = upd(exc, LAMBDA r : res(r).exc)
  /\ last' = upd(last, LAMBDA r : NoLast)
  /\ UNCHANGED <<declared, cls_init, cls_old_init, init_subclass,
                 old_init_subclass, current_context, default_numel, n_cfg,
                 draws, group>>

\* ------------------------------------------------------ calc_fanin_fanout
\* the loop of lines 182-183 over tensor_shape[2:]
RECURSIVE ReceptiveField(_, _, _)
ReceptiveField(tensor_shape, i, receptive_field_size) ==
  IF i > Len(tensor_shape) THEN receptive_field_size
  ELSE ReceptiveField(tensor_shape, i + 1, receptive_field_size * tensor_shape[i])

\* calc_fanin_fanout without the branch of lines 167-170
calc_fanin_fanout_PhysicalShape(tensor, is_parameter) ==
  LET tensor_shape == tensor.shape
      dimensions == Len(tensor_shape)
      receptive_field_size ==
        IF dimensions > 2 THEN ReceptiveField(tensor_shape, 3, 1) ELSE 1
  IN  IF ~is_parameter THEN [raised |-> "AssertionError", fan |-> << >>]
      ELSE IF dimensions < 2 THEN [raised |-> "ValueError", fan |-> << >>]
      ELSE [raised |-> None,
            fan |-> <<tensor_shape[2] * receptive_field_size,
                      tensor_shape[1] * receptive_field_size>>]

\* ZeroInitContext.calc_fanin_fanout(tensor), lines 159-187
calc_fanin_fanout(tensor, is_parameter) ==
  LET tensor_shape == IF ~tensor.colo_attr \/ ~tensor.is_sharded
                      THEN tensor.shape ELSE tensor.origin_shape
      dimensions == Len(tensor_shape)
      receptive_field_size ==
        IF dimensions > 2 THEN ReceptiveField(tensor_shape, 3, 1) ELSE 1
  IN  IF ~is_parameter THEN [raised |-> "AssertionError", fan |-> << >>]
      ELSE IF dimensions < 2 THEN [raised |-> "ValueError", fan |-> << >>]
      ELSE [raised |-> None,
            fan |-> <<tensor_shape[2] * receptive_field_size,
                      tensor_shape[1] * receptive_field_size>>]

\* a weight initialiser asks for the fan-in and fan-out of tensor p
CalcFan(r, p, is_parameter) ==
  LET res == calc_fanin_fanout(params[r][p], is_parameter) IN
  /\ Running(r)
  /\ p \in 1..Len(params[r])
  /\ last' = [last EXCEPT ![r] =
       [NoLast EXCEPT !.op = "fan", !.raised = res.raised, !.fan = res.fan,
                      !.args = <<p, is_parameter>>]]
  /\ UNCHANGED <<declared, cls_init, cls_old_init, init_subclass,
                 old_init_subclass, current_context, ctxs, default_numel,
                 params, cpu_rng, cuda_rng, fan_routine, with_stack, exc,
                 n_cfg, draws, group>>

\* ---------------------------------------------------------- specification
\* Spec: one process; contexts on the accelerator, constructors, classes
\* declared in the scope, exceptions, a failing entry
Next ==
  \/ \E r \in Ranks, sh \in BOOLEAN, n \in {"default", "own"} :
        NewContext(r, "cuda", DefaultSeed, sh, n)
  \/ \E r \in Ranks, ok \in BOOLEAN : Enter(r, ok)
  \/ \E r \in Ranks, c \in Classes : Construct(r, c)
  \/ \E r \in Ranks, c \in Classes : DeclareClass(r, c)
  \/ \E r \in Ranks : RaiseInBody(r)
  \/ \E r \in Ranks : Catch(r)
  \/ \E r \in Ranks : Exit(r)
  \/ Broadcast

Spec == Init /\ [][Next]_vars

\* SpecH: one process; contexts on either device, hijack scopes with any
\* overrides, exceptions inside them
NextH ==
  \/ \E r \in Ranks, d \in Devices, sh \in BOOLEAN :
        NewContext(r, d, DefaultSeed, sh, "default")
  \/ \E r \in Ranks : Enter(r, TRUE)
  \/ \E r \in Ranks, c \in {"Linear", "Experts"} : Construct(r, c)
  \/ \E r \in Ranks, d \in Devices : Draw(r, d)
  \/ \E r \in Ranks, d \in Devices, rep \in BOOLEAN, sh \in BOOLEAN :
        HijackEnter(r, d, rep, sh)
  \/ \E r \in Ranks : HijackExit(r)
  \/ \E r \in Ranks : RaiseInBody(r)
  \/ \E r \in Ranks : Catch(r)
  \/ \E r \in Ranks : HijackUnwind(r)
  \/ \E r \in Ranks : Exit(r)
  \/ Broadcast

SpecH == Init /\ [][NextH]_vars

\* SpecT: one process; scopes that are entered, in which the classes
\* that exist at entry are constructed and the generators are drawn from,
\* and that end normally or with an exception of the body
NextT ==
  \/ \E r \in Ranks, sh \in BOOLEAN, n \in {"default", "own"} :
        NewContext(r, "cuda", DefaultSeed, sh, n)
  \/ \E r \in Ranks : Enter(r, TRUE)
  \/ \E r \in Ranks, c \in Range(InitialClasses) : Construct(r, c)
  \/ \E r \in Ranks, d \in Devices : Draw(r, d)
  \/ \E r \in Ranks : RaiseInBody(r)
  \/ \E r \in Ranks : Catch(r)
  \/ \E r \in Ranks : Exit(r)
  \/ Broadcast

SpecT == Init /\ [][NextT]_vars

\* SpecDP: the two ranks of one data-parallel group, each running one scope
InitDP ==
  /\ InitProcess
  /\ params = [r \in Ranks |-> << >>]
  /\ group = Ranks

NextDP ==
  \/ \E r \in Ranks, s \in Seeds, sh \in BOOLEAN :
        ctxs[r] = << >> /\ NewContext(r, "cuda", s, sh, "own")
  \/ \E r \in Ranks : Enter(r, TRUE)
  \/ \E r \in Ranks, c \in {"Linear", "Experts"} : Construct(r, c)
  \/ \E r \in Ranks : Exit(r)
  \/ Broadcast

SpecDP == InitDP /\ [][NextDP]_vars

\* SpecDPFair: SpecDP with the guarantee of the collective: a broadcast
\* that every rank of the group has entered completes
SpecDPFair == InitDP /\ [][NextDP]_vars /\ WF_vars(Broadcast)

\* SpecFan: calc_fanin_fanout on one tensor of any shape, unwrapped,
\* wrapped, or wrapped and sharded from any original shape
Shapes == UNION {[1..n -> 1..MaxDim] : n \in 0..MaxRank}

FanInputs ==
  LET t(shape) == NewParam(shape, InitialRng, 0, None) IN
    {t(s) : s \in Shapes}
    \cup {ShardedParamV2(t(s)) : s \in Shapes}
    \cup {[ShardedParamV2(t(o)) EXCEPT !.is_sharded = TRUE, !.shape = s] :
            o \in Shapes, s \in Shapes}

InitFan ==
  /\ InitProcess
  /\ \E q \in FanInputs : params = [r \in Ranks |-> IF r = 1 THEN <<q>> ELSE << >>]
  /\ group = {1}

NextFan == \E r \in Ranks, p \in 1..1, b \in BOOLEAN : CalcFan(r, p, b)

SpecFan == InitFan /\ [][NextFan]_vars

\* SpecST: one ShardedTensor built from a tensor of any shape and dtype,
\* then payload replacements and is_sharded assignments in any order
Dtypes == {"float32", "float16", "int64"}

\* the shapes a replacement payload takes: a scalar or a flat partition
PayloadShapes == {s \in Shapes : Len(s) <= 1}

\* ShardedTensor.is_sharded = flag
is_sharded_setter_Sticky(q, flag) == [q EXCEPT !.is_sharded = @ \/ flag]
is_sharded_setter(q, flag) == [q EXCEPT !.is_sharded = flag]

\* StatefulTensor.reset_payload(tensor): the wrapper holds another tensor
reset_payload(q, shape, dtype) == [q EXCEPT !.shape = shape, !.dtype = dtype]

\* t = ShardedTensor(tensor)
ShardedTensorInit(r, p) ==
  /\ Running(r)
  /\ p \in 1..Len(params[r])
  /\ ~params[r][p].colo_attr
  /\ params' = [params EXCEPT ![r][p] = ShardedParamV2(@)]
  /\ last' = [last EXCEPT ![r] =
       [NoLast EXCEPT !.op = "ShardedTensor",
                      !.args = <<params[r][p].shape, params[r][p].dtype, FALSE>>]]
  /\ UNCHANGED <<declared, cls_init, cls_old_init, init_subclass,
                 old_init_subclass, current_context, ctxs, default_numel,
                 cpu_rng, cuda_rng, fan_routine, with_stack, exc,
                 n_cfg, draws, group>>

\* t.reset_payload(tensor)
ResetPayload(r, p, shape, dtype) ==
  /\ Running(r)
  /\ p \in 1..Len(params[r])
  /\ params[r][p].colo_attr
  /\ params' = [params EXCEPT ![r][p] = reset_payload(@, shape, dtype)]
  /\ last' = [last EXCEPT ![r].op = "reset_payload"]
  /\ UNCHANGED <<declared, cls_init, cls_old_init, init_subclass,
                 old_init_subclass, current_context, ctxs, default_numel,
                 cpu_rng, cuda_rng, fan_routine, with_stack, exc,
                 n_cfg, draws, group>>

\* t.is_sharded = flag
SetIsSharded(r, p, flag) ==
  /\ Running(r)
  /\ p \in 1..Len(params[r])
  /\ params[r][p].colo_attr
  /\ params' = [params EXCEPT ![r][p] = is_sharded_setter(@, flag)]
  /\ last' = [last EXCEPT ![r].op = "is_sharded", ![r].args[3] = flag]
  /\ UNCHANGED <<declared, cls_init, cls_old_init, init_subclass,
                 old_init_subclass, current_context, ctxs, default_numel,
                 cpu_rng, cuda_rng, fan_routine, with_stack, exc,
                 n_cfg, draws, group>>

InitST ==
  /\ InitProcess
  /\ \E s \in Shapes, d \in Dtypes :
       params = [r \in Ranks |->
                   IF r = 1 THEN <<[NewParam(s, InitialRng, 0, None)
                                      EXCEPT !.dtype = d]>>
                   ELSE << >>]
  /\ group = {1}

NextST ==
  \/ \E r \in Ranks, p \in 1..1 : ShardedTensorInit(r, p)
  \/ \E r \in Ranks, p \in 1..1, s \in PayloadShapes, d \in Dtypes :
        ResetPayload(r, p, s, d)
  \/ \E r \in Ranks, p \in 1..1, b \in BOOLEAN : SetIsSharded(r, p, b)

SpecST == InitST /\ [][NextST]_vars

\* =============================================================== claims
\* every scope the process opened has run __exit__ to its end
AllExited(r) ==
  /\ ctxs[r] # << >>
  /\ \A k \in 1..Len(ctxs[r]) : ctxs[r][k].phase = "exited"

HookCalls(ev) == SelectSeq(ev, LAMBDA e : e.e = "hook")

\* C1: once every scope has exited (after a normal or a raising body),
\* constructing an instance of a class that existed at entry, a class with
\* two Module bases included, does not invoke _post_init_method
C1_NoHookAfterExit ==
  \A r \in Ranks :
    (AllExited(r) /\ last[r].op = "construct"
       /\ last[r].cls \in Range(InitialClasses))
      => HookCalls(last[r].ev) = << >>

\* C2: a hijack opened while a context is current installs a config made
\* of the overrides, and when its nested scope ends, normally or by an
\* exception, the current context holds again the config object it held
\* before the hijack
C2_HijackRestoresConfig ==
  [][\A r \in Ranks :
       /\ (/\ Len(with_stack'[r]) = Len(with_stack[r]) + 1
           /\ Last(with_stack'[r]).kind = "hijack"
           /\ current_context[r] # 0)
          => (/\ ctxs'[r][current_context[r]].config = last'[r].cfg
              /\ <<last'[r].cfg.target_device, last'[r].cfg.is_replicated,
                   last'[r].cfg.shard_param>> = last'[r].args
              /\ Last(with_stack'[r]).old_config = ctxs[r][current_context[r]].config)
       /\ (/\ with_stack[r] # << >>
           /\ Last(with_stack[r]).kind = "hijack"
           /\ ~Last(with_stack[r]).passthru
           /\ with_stack'[r] = Front(with_stack[r]))
          => ctxs'[r][current_context'[r]].config = Last(with_stack[r]).old_config
    ]_vars

\* C3: constructing a context makes it the current context, and once its
\* scope has exited no context is current
C3_SlotClearedAtExit ==
  \A r \in Ranks :
    /\ (ctxs[r] # << >> /\ ctxs[r][Len(ctxs[r])].phase \in {"built", "active"})
         => current_context[r] = Len(ctxs[r])
    /\ AllExited(r) => current_context[r] = 0

\* C4: ZeroContextConfig(target_device, replicated, shard_param) succeeds
\* exactly when (shard_param => replicated) and (replicated and not
\* shard_param => target_device is cuda); when it fails no field is set,
\* when it succeeds the fields are the arguments
C4_ConfigInvariants ==
  \A r \in Ranks :
    last[r].op = "config" =>
      LET target_device == last[r].args[1]
          replicated    == last[r].args[2]
          shard_param   == last[r].args[3]
          valid == /\ shard_param => replicated
                   /\ (replicated /\ ~shard_param) => target_device = "cuda"
      IN  /\ last[r].raised = None <=> valid
          /\ ~valid => last[r].raised = "AssertionError" /\ last[r].cfg = NoCfg
          /\ valid => /\ last[r].cfg.target_device = target_device
                      /\ last[r].cfg.is_replicated = replicated
                      /\ last[r].cfg.shard_param = shard_param

C4_Witness ==
  \E r \in Ranks :
    /\ last[r].op = "config"
    /\ last[r].args = <<"cpu", TRUE, FALSE>>
    /\ last[r].raised = "AssertionError"

\* C5: the parameters a context has broadcast when its exit is complete
\* are exactly those of its param_list that were marked replicated and are
\* not sharded; a parameter wrapped under shard_param = True is sharded
\* from then on and is in no broadcast
C5_BroadcastExactlyReplicatedUnsharded ==
  \A r \in Ranks :
    /\ \A k \in 1..Len(ctxs[r]) :
         ctxs[r][k].phase = "exited" =>
           Range(ctxs[r][k].bcast) =
             {p \in Range(ctxs[r][k].swept) :
                params[r][p].is_replicated /\ ~params[r][p].is_sharded}
    /\ \A p \in 1..Len(params[r]) :
         (params[r][p].colo_attr /\ params[r][p].wrapped_shard) =>
           /\ params[r][p].is_sharded
           /\ \A k \in 1..Len(ctxs[r]) : p \notin Range(ctxs[r][k].bcast)

C5_Witness ==
  \E r \in Ranks, k \in 1..MaxCtx :
    /\ k <= Len(ctxs[r])
    /\ ctxs[r][k].phase = "exited"
    /\ ctxs[r][k].bcast # << >>
    /\ \E p \in Range(ctxs[r][k].swept) :
         params[r][p].wrapped_shard /\ params[r][p].is_sharded

\* the ranks of a two-rank group have both run one scope to its end, with
\* shard_param = False, and wrapped the same modules' parameters in it
SameConstruction ==
  /\ group = Ranks
  /\ \A r \in Ranks : /\ Len(ctxs[r]) = 1
                      /\ ctxs[r][1].phase = "exited"
                      /\ ~ctxs[r][1].config.shard_param
  /\ \A r, q \in Ranks :
       /\ Len(ctxs[r][1].swept) = Len(ctxs[q][1].swept)
       /\ \A i \in 1..Len(ctxs[r][1].swept) :
            LET a == params[r][ctxs[r][1].swept[i]]
                b == params[q][ctxs[q][1].swept[i]]
            IN  /\ a.owner = b.owner
                /\ a.origin_shape = b.origin_shape
                /\ a.is_replicated = b.is_replicated

FirstRank == CHOOSE r \in Ranks : \A q \in Ranks : r <= q

\* C6: when both ranks have run a scope with shard_param = False and
\* replicated = True over the same modules and both have exited, every
\* replicated parameter's payload on every rank is the payload the first
\* rank initialised it with
C6_PayloadsAgreeAfterExit ==
  SameConstruction =>
    \A r \in Ranks : \A i \in 1..Len(ctxs[r][1].swept) :
      LET mine == params[r][ctxs[r][1].swept[i]]
          src  == params[FirstRank][ctxs[FirstRank][1].swept[i]]
      IN  mine.is_replicated =>
            /\ mine.payload = src.payload
            /\ src.payload[1] = InstalledSeed(ctxs[FirstRank][1].seed, FirstRank)

C6_Witness ==
  /\ SameConstruction
  /\ \E r \in Ranks :
       /\ r # FirstRank
       /\ InstalledSeed(ctxs[r][1].seed, r)
            # InstalledSeed(ctxs[FirstRank][1].seed, FirstRank)
       /\ \E i \in 1..Len(ctxs[r][1].swept) :
            /\ params[r][ctxs[r][1].swept[i]].is_replicated
            /\ ctxs[r][1].swept[i] \in Range(ctxs[r][1].bcast)

\* the sum of the original element counts of parameters i..j of ps
RECURSIVE SumOriginNumel(_, _, _)
SumOriginNumel(ps, i, j) ==
  IF i > j THEN 0
  ELSE (IF ps[i].colo_attr THEN ps[i].origin_numel ELSE Numel(ps[i].shape))
       + SumOriginNumel(ps, i + 1, j)

\* C7: a module tree whose construction completes inside a scope makes
\* that scope's model_numel_tensor grow by the sum of the original element
\* counts of the tree's parameters, each counted once
C7_CounterGrowsByTreeNumel ==
  [][\A r \in Ranks :
       (/\ last'[r].op = "construct"
        /\ last'[r].scope # 0
        /\ last'[r].raised = None)
         => LET k == last'[r].scope IN
              Counter(ctxs'[r], default_numel'[r], k)
                - Counter(ctxs[r], default_numel[r], k) =
                SumOriginNumel(params'[r], Len(params[r]) + 1, Len(params'[r]))
    ]_vars

\* C8: when the with-statement of a scope ends, after a normal or a
\* raising body, the host generator, the accelerator generator and the
\* fan-in/fan-out routine are what they were just before the scope was
\* entered
C8_RngAndFanRestored ==
  [][\A r \in Ranks :
       (/\ with_stack[r] # << >>
        /\ Last(with_stack[r]).kind = "scope"
        /\ with_stack'[r] = Front(with_stack[r]))
         => LET pre == ctxs[r][Last(with_stack[r]).k].pre IN
              /\ cpu_rng'[r] = pre.cpu
              /\ cuda_rng'[r] = pre.cuda
              /\ fan_routine'[r] = pre.fan
    ]_vars

\* C9: inside the scope of a context with base seed s, rank r runs on the
\* installed seed s + (s + 1) * r (before anything is drawn), and two
\* different ranks given the same base seed run on different seeds
C9_RanksSeedDiffer ==
  /\ \A r \in Ranks :
       ActiveCtx(r) # 0 =>
         /\ cpu_rng[r].seed = ctxs[r][ActiveCtx(r)].seed
                                + (ctxs[r][ActiveCtx(r)].seed + 1) * r
         /\ cuda_rng[r] = manual_seed(cpu_rng[r].seed)
  /\ \A r, q \in Ranks :
       (/\ r # q
        /\ ActiveCtx(r) # 0 /\ ActiveCtx(q) # 0
        /\ ctxs[r][ActiveCtx(r)].seed = ctxs[q][ActiveCtx(q)].seed)
         => cpu_rng[r].seed # cpu_rng[q].seed

\* C10: calc_fanin_fanout returns, for the shape it uses (origin_shape of
\* a parameter whose wrap metadata says sharded, the parameter's own shape
\* otherwise), fan-in = shape[1] and fan-out = shape[0], each times the
\* product of shape[2:], and raises when that shape has fewer than 2
\* dimensions
C10_FanOfLogicalShape ==
  \A r \in Ranks :
    last[r].op = "fan" =>
      LET t    == params[r][last[r].args[1]]
          used == IF t.colo_attr /\ t.is_sharded THEN t.origin_shape ELSE t.shape
      IN  /\ Len(used) < 2 => last[r].raised # None
          /\ (last[r].args[2] /\ Len(used) >= 2) =>
               /\ last[r].raised = None
               /\ last[r].fan = <<Numel(used) \div used[1], Numel(used) \div used[2]>>

C10_Witness ==
  \E r \in Ranks :
    /\ last[r].op = "fan"
    /\ last[r].raised = None
    /\ LET t == params[r][last[r].args[1]] IN
         /\ t.colo_attr /\ t.is_sharded
         /\ Len(t.origin_shape) = 3
         /\ Len(t.shape) = 1
         /\ last[r].fan = <<t.origin_shape[2] * t.origin_shape[3],
                            t.origin_shape[1] * t.origin_shape[3]>>

C7_Witness ==
  \E r \in Ranks :
    /\ last[r].op = "construct"
    /\ last[r].cls = "Block"
    /\ last[r].scope # 0
    /\ last[r].raised = None
    /\ Len(HookCalls(last[r].ev)) >= 2
    /\ Len(params[r]) = 2
    /\ \A p \in 1..2 : params[r][p].is_sharded
    /\ ctxs[r][last[r].scope].numel = "own"
    /\ ctxs[r][last[r].scope].own_numel
         = Numel(params[r][1].origin_shape) + Numel(params[r][2].origin_shape)

C8_Witness ==
  \E r \in Ranks, k \in 1..MaxCtx :
    /\ k <= Len(ctxs[r])
    /\ ctxs[r][k].phase = "exited"
    /\ with_stack[r] = << >>
    /\ draws[r] > 0
    /\ \E p \in 1..Len(params[r]) : params[r][p].scope = k
    /\ ctxs[r][k].pre.cpu # manual_seed(InstalledSeed(ctxs[r][k].seed, r))
    /\ cpu_rng[r] = ctxs[r][k].pre.cpu
    /\ cuda_rng[r] = ctxs[r][k].pre.cuda
    /\ fan_routine[r] = ctxs[r][k].pre.fan

\* C11: with no context current, hijack_context_config runs its nested
\* scope as a pass-through: whatever the overrides, no ZeroContextConfig
\* is built and nothing is raised, no context's config changes, and
\* current_context stays unset on the way in and on the way out
C11_HijackPassThrough ==
  [][\A r \in Ranks :
       /\ (/\ last'[r].op = "hijack"
           /\ last'[r] # last[r])
          => (/\ current_context[r] = 0
              /\ last'[r].raised = None
              /\ exc'[r] = None
              /\ Len(with_stack'[r]) = Len(with_stack[r]) + 1
              /\ Last(with_stack'[r]).kind = "hijack"
              /\ Last(with_stack'[r]).passthru)
       /\ (/\ current_context[r] = 0
           /\ Len(with_stack'[r]) = Len(with_stack[r]) + 1
           /\ Last(with_stack'[r]).kind = "hijack")
          => (/\ last'[r].op = "hijack"
              /\ n_cfg'[r] = n_cfg[r]
              /\ ctxs'[r] = ctxs[r]
              /\ current_context'[r] = 0)
       /\ (/\ with_stack[r] # << >>
           /\ Last(with_stack[r]).kind = "hijack"
           /\ Last(with_stack[r]).passthru
           /\ with_stack'[r] = Front(with_stack[r]))
          => (/\ ctxs'[r] = ctxs[r]
              /\ n_cfg'[r] = n_cfg[r]
              /\ current_context'[r] = current_context[r])
    ]_vars

C11_Witness ==
  \E r \in Ranks :
    /\ current_context[r] = 0
    /\ last[r].op = "hijack"
    /\ last[r].args = <<"cpu", FALSE, TRUE>>
    /\ last[r].raised = None
    /\ exc[r] = None
    /\ with_stack[r] # << >>
    /\ Last(with_stack[r]).passthru

\* the module instances a constructor call built or passed through
Instances(ev) == {ev[i].m : i \in 1..Len(ev)}

\* the positions of ev at which context k's hook ran for instance m
HooksOf(ev, k, m) ==
  {j \in 1..Len(ev) : ev[j].e = "hook" /\ ev[j].m = m /\ ev[j].k = k}

\* the positions of ev at which a constructor written for instance m's
\* class or for one of its bases returned
CtorsOf(ev, m) == {i \in 1..Len(ev) : ev[i].e = "orig" /\ ev[i].m = m}

\* a constructor call completed inside the scope of rank r's context k
CompletedInScope(r) ==
  /\ last[r].op = "construct"
  /\ last[r].scope # 0
  /\ last[r].raised = None

\* C12 (as stated): for every instance constructed while the scope is
\* active the scope's hook runs exactly once, after the instance's
\* original constructor
C12_HookExactlyOnce ==
  \A r \in Ranks :
    CompletedInScope(r) =>
      \A m \in Instances(last[r].ev) :
        /\ Cardinality(HooksOf(last[r].ev, last[r].scope, m)) = 1
        /\ \A j \in HooksOf(last[r].ev, last[r].scope, m) :
             \A i \in CtorsOf(last[r].ev, m) : i < j

\* C12 (amended): for every instance constructed while the scope is
\* active the scope's hook runs at least once; every run follows a
\* constructor of the instance that has returned, and the last run
\* follows all of them
C12_HookAtLeastOnceAfterCtor ==
  \A r \in Ranks :
    CompletedInScope(r) =>
      \A m \in Instances(last[r].ev) :
        LET hooks == HooksOf(last[r].ev, last[r].scope, m)
            ctors == CtorsOf(last[r].ev, m)
        IN  /\ hooks # {}
            /\ \A j \in hooks : \E i \in ctors : i < j
            /\ \E j \in hooks : \A i \in ctors : i < j

C12_Witness ==
  \E r \in Ranks :
    /\ CompletedInScope(r)
    /\ last[r].cls = "NewSub"
    /\ Cardinality(HooksOf(last[r].ev, last[r].scope, 1)) = 2
    /\ Cardinality(CtorsOf(last[r].ev, 1)) = 2

\* C13: once every scope has exited, a class that was declared while a
\* scope was active and defines its own __init__ constructs its instances
\* with that function: not with an ancestor's constructor, not with a
\* wrapper
C13_DeclaredClassKeepsItsInit ==
  \A r \in Ranks :
    AllExited(r) =>
      \A c \in LateClasses :
        (c \in Range(declared[r]) /\ OwnInit(c)) =>
          LookupInit(cls_init[r], c, 1) = OrigInit(c)

\* how often p occurs in the sequence s
Occurrences(s, p) == Cardinality({i \in 1..Len(s) : s[i] = p})

\* what the hook set on a parameter when it wrapped it
WrapState(q) ==
  <<q.colo_attr, q.is_replicated, q.dtype, q.device, q.is_sharded, q.n_shard,
    q.origin_shape, q.origin_numel, q.origin_dtype, q.wrapped_by>>

\* C14: however often the hook fires for a module, or for several modules
\* owning one parameter, a parameter wrapped by a constructor call that
\* completed in the scope is once in the wrapping context's param_list
\* and was sharded at most once (once exactly under shard_param = True);
\* no parameter is ever twice in a param_list; and a wrapped parameter
\* keeps the metadata, is_replicated mark, dtype and device of its first
\* wrapping for good
C14_HookIdempotentPerParameter ==
  [][\A r \in Ranks :
       /\ \A p \in 1..Len(params[r]) :
            params[r][p].colo_attr =>
              WrapState(params'[r][p]) = WrapState(params[r][p])
       /\ (/\ last'[r].op = "construct"
           /\ last'[r].scope # 0
           /\ last'[r].raised = None)
          => \A p \in (Len(params[r]) + 1)..Len(params'[r]) :
               LET q == params'[r][p] IN
                 /\ q.colo_attr
                 /\ Occurrences(ctxs'[r][q.wrapped_by].param_list, p) = 1
                 /\ q.n_shard = IF q.wrapped_shard THEN 1 ELSE 0
                 /\ q.is_sharded = q.wrapped_shard
       /\ \A k \in 1..Len(ctxs'[r]) : \A p \in 1..Len(params'[r]) :
            Occurrences(ctxs'[r][k].param_list \o ctxs'[r][k].swept, p) <= 1
    ]_vars

C14_Witness ==
  \E r \in Ranks :
    /\ CompletedInScope(r)
    /\ last[r].cls = "Block"
    /\ Len(HookCalls(last[r].ev)) = 2
    /\ Len(params[r]) = 2
    /\ params[r][1].n_shard = 1
    /\ ctxs[r][last[r].scope].param_list = <<1, 2>>

\* the config under which no_shard_zero_decrator(is_replicated = False)
\* runs the decorated constructor
NoShardCfg == [target_device |-> "cuda", is_replicated |-> FALSE, shard_param |-> FALSE]

\* parameter q was treated as config cfg prescribes
TreatedAs(q, cfg) ==
  /\ q.colo_attr
  /\ q.is_replicated = cfg.is_replicated
  /\ q.is_sharded = cfg.shard_param
  /\ q.device = cfg.target_device

\* C15: a parameter is treated according to the config in force when the
\* hook wraps it: a Linear constructed in the scope gets the config its
\* context holds at that moment (the hijack's inside a hijack, the
\* context's own before and after, a hijack of the scope that ends
\* normally putting the previous config back); whatever that config, the parameter is
\* appended to param_list and counted; and a parameter marked
\* non-replicated is not sharded and is in no broadcast of the exit
C15_TreatedByConfigInForce ==
  [][\A r \in Ranks :
       /\ (/\ last'[r].op = "construct"
           /\ last'[r].scope # 0
           /\ last'[r].raised = None)
          => LET k     == last'[r].scope
                 cfg   == ctxs[r][k].config
                 fresh == (Len(params[r]) + 1)..Len(params'[r])
             IN  /\ ctxs'[r][k].param_list
                      = ctxs[r][k].param_list
                          \o [i \in 1..Cardinality(fresh) |-> Len(params[r]) + i]
                 /\ Counter(ctxs'[r], default_numel'[r], k)
                      - Counter(ctxs[r], default_numel[r], k)
                      = SumOriginNumel(params'[r], Len(params[r]) + 1, Len(params'[r]))
                 /\ \A p \in fresh :
                      IF last'[r].cls = "Experts" /\ params'[r][p].owner = "Linear"
                      THEN TreatedAs(params'[r][p], NoShardCfg)
                      ELSE TreatedAs(params'[r][p], cfg)
       /\ (/\ with_stack[r] # << >>
           /\ Last(with_stack[r]).kind = "hijack"
           /\ ~Last(with_stack[r]).passthru
           /\ ActiveCtx(r) = Last(with_stack[r]).k
           /\ exc[r] = None
           /\ with_stack'[r] = Front(with_stack[r]))
          => ctxs'[r][Last(with_stack[r]).k].config = Last(with_stack[r]).old_config
       /\ \A k \in 1..Len(ctxs'[r]) : \A p \in 1..Len(params'[r]) :
            (params'[r][p].colo_attr /\ ~params'[r][p].is_replicated) =>
              /\ ~params'[r][p].is_sharded
              /\ p \notin Range(ctxs'[r][k].bcast)
    ]_vars

C15_Witness ==
  \E r \in Ranks, k \in 1..MaxCtx :
    /\ k <= Len(ctxs[r])
    /\ ctxs[r][k].phase = "exited"
    /\ ctxs[r][k].config.shard_param
    /\ ctxs[r][k].swept = <<1, 2>>
    /\ ctxs[r][k].bcast = << >>
    /\ params[r][1].owner = "Linear" /\ params[r][2].owner = "Linear"
    /\ ~params[r][1].is_replicated /\ ~params[r][1].is_sharded
    /\ params[r][2].is_replicated /\ params[r][2].is_sharded
    /\ default_numel[r] = 12

\* C16: when an instance of a class whose constructor is decorated with
\* no_shard_zero_decrator is constructed in a scope whose config has
\* shard_param = True, the parameters that constructor registers on the
\* instance itself are wrapped under the no-shard config: they are not
\* sharded
C16_DecoratedOwnParamsNotSharded ==
  \A r \in Ranks :
    (/\ CompletedInScope(r)
     /\ Decorated(last[r].cls)
     /\ ctxs[r][last[r].scope].config.shard_param)
      => \A p \in 1..Len(params[r]) :
           (/\ params[r][p].owner = last[r].cls
            /\ params[r][p].scope = last[r].scope)
             => /\ params[r][p].colo_attr
                /\ ~params[r][p].wrapped_shard
                /\ ~params[r][p].is_sharded

\* the parameters context ctx wrapped, in param_list order
WrappedList(ctx) == IF ctx.phase = "exited" THEN ctx.swept ELSE ctx.param_list

\* every rank of the group has run one scope with the same shard_param,
\* has wrapped the parameters of the same modules in the same order under
\* the same configs, and has reached the exit of its scope
SameProgramAtExit ==
  /\ group = Ranks
  /\ \A r \in Ranks : /\ Len(ctxs[r]) = 1
                      /\ ctxs[r][1].phase \in {"exiting", "exited"}
  /\ \A r, q \in Ranks :
       /\ ctxs[r][1].config.shard_param = ctxs[q][1].config.shard_param
       /\ Len(WrappedList(ctxs[r][1])) = Len(WrappedList(ctxs[q][1]))
       /\ \A i \in 1..Len(WrappedList(ctxs[r][1])) :
            LET a == params[r][WrappedList(ctxs[r][1])[i]]
                b == params[q][WrappedList(ctxs[q][1])[i]]
            IN  a.owner = b.owner /\ a.origin_shape = b.origin_shape

\* the broadcasts context ctx has issued, as positions in its param_list
BcastPositions(ctx) ==
  [i \in 1..Len(ctx.bcast) |->
     CHOOSE j \in 0..Len(WrappedList(ctx)) :
       \/ j > 0 /\ WrappedList(ctx)[j] = ctx.bcast[i]
       \/ j = 0 /\ ctx.bcast[i] \notin Range(WrappedList(ctx))]

AllRanksExited == \A r \in Ranks : ctxs[r] # << >> /\ ctxs[r][1].phase = "exited"

\* C17: the parameters of a param_list are in the order the hook wrapped
\* them; ranks that ran the same program are, at the exit of the scope,
\* in the same broadcast of the same sequence of broadcasts (or all past
\* the last one), so every broadcast is matched, and the exit of every
\* rank completes
C17_BroadcastsMatchAndExitCompletes ==
  /\ [](\A r \in Ranks : \A k \in 1..Len(ctxs[r]) :
          \A i, j \in 1..Len(WrappedList(ctxs[r][k])) :
            i < j => WrappedList(ctxs[r][k])[i] < WrappedList(ctxs[r][k])[j])
  /\ [](SameProgramAtExit =>
          \A r, q \in Ranks :
            /\ ctxs[r][1].phase = ctxs[q][1].phase
            /\ BcastPositions(ctxs[r][1]) = BcastPositions(ctxs[q][1])
            /\ \A i \in 1..Len(ctxs[r][1].bcast) :
                 BcastPositions(ctxs[r][1])[i] > 0)
  /\ (SameProgramAtExit ~> AllRanksExited)

C17_Witness ==
  /\ SameProgramAtExit
  /\ AllRanksExited
  /\ \A r \in Ranks :
       /\ Len(ctxs[r][1].swept) = 2
       /\ BcastPositions(ctxs[r][1]) = <<2>>
       /\ params[r][ctxs[r][1].swept[1]].owner = "Linear"
       /\ ~params[r][ctxs[r][1].swept[1]].is_replicated
       /\ params[r][ctxs[r][1].swept[2]].owner = "Experts"

\* the sum of the original element counts of the parameters of ps that
\* were constructed in scope k
RECURSIVE SumNumelOfScope(_, _, _)
SumNumelOfScope(ps, k, i) ==
  IF i > Len(ps) THEN 0
  ELSE (IF ps[i].scope = k
        THEN (IF ps[i].colo_attr THEN ps[i].origin_numel
              ELSE Numel(ps[i].shape))
        ELSE 0)
       + SumNumelOfScope(ps, k, i + 1)

\* C18: a scope built without an explicit model_numel_tensor sees, when
\* its with-statement ends, a counter equal to the sum of the element
\* counts of the parameters constructed in that scope only, whatever
\* scopes ran before it (every parameter having been wrapped by the hook
\* of the scope it was constructed in, and by no other)
C18_CounterOfOwnScopeOnly ==
  [][\A r \in Ranks : \A k \in 1..Len(ctxs[r]) :
       (/\ ctxs[r][k].phase = "active"
        /\ ctxs'[r][k].phase \in {"exiting", "exited"}
        /\ ctxs[r][k].numel = "default"
        /\ \A p \in 1..Len(params[r]) :
             params[r][p].wrapped_by = params[r][p].scope)
         => Counter(ctxs'[r], default_numel'[r], k)
              = SumNumelOfScope(params'[r], k, 1)
    ]_vars

\* C19: when __enter__ fails because _pre_context_exec raises, the
\* constructors of the Module subclasses and Module.__init_subclass__ are
\* afterwards what they were before the attempt
C19_FailedEntryLeavesNoWrapper ==
  [][\A r \in Ranks : \A k \in 1..Len(ctxs[r]) :
       (/\ ctxs[r][k].phase = "built"
        /\ ctxs'[r][k].phase = "enter_raised")
         => /\ cls_init'[r] = cls_init[r]
            /\ init_subclass'[r] = init_subclass[r]
    ]_vars

\* C20: a ShardedTensor holds the shape, the element count and the dtype
\* of the tensor it was constructed from, whatever payloads replaced that
\* tensor since, and its is_sharded is the last value assigned to it,
\* false when none was
C20_OriginKeptAndFlagLastAssigned ==
  \A r \in Ranks : \A p \in 1..Len(params[r]) :
    (params[r][p].colo_attr
       /\ last[r].op \in {"ShardedTensor", "reset_payload", "is_sharded"})
      => /\ params[r][p].origin_shape = last[r].args[1]
         /\ params[r][p].origin_numel = Numel(last[r].args[1])
         /\ params[r][p].origin_dtype = last[r].args[2]
         /\ params[r][p].is_sharded = last[r].args[3]

C20_Witness ==
  \E r \in Ranks :
    /\ Len(params[r]) = 1
    /\ params[r][1].colo_attr
    /\ last[r].op = "is_sharded"
    /\ ~params[r][1].is_sharded
    /\ params[r][1].shape # params[r][1].origin_shape
    /\ params[r][1].dtype # params[r][1].origin_dtype
    /\ Numel(params[r][1].shape) < params[r][1].origin_numel

====
